---- MODULE Spec2Model ----
(***************************************************************************)
(* Model of the anomaly-detection notebook                                 *)
(*   (Exercises) Introduction_TimeSeries_Anomaly_Detection.ipynb           *)
(* Cells modelled: Data Sampling (resample/mean/dropna), split_data,       *)
(* _sarima and its call cell, evaluation.                                  *)
(*                                                                         *)
(* Numbers.  Timestamps are integers counting 15-minute units from the     *)
(* epoch.  A metric value is an exact rational [nan, num, den] (den > 0),  *)
(* or NaN.  A standard deviation is kept as its square, the rational       *)
(* num/den, so that sqrt never has to be rounded; a bound is the exact     *)
(* real  base + coef * sqrt(num/den), or NaN.  Every comparison with NaN   *)
(* is FALSE, as in numpy/pandas.                                           *)
(***************************************************************************)
EXTENDS Integers, Sequences, FiniteSets, TLC

VARIABLES pc, raw, freq, cadence, m_values, train, test,
          sfrequency, converged, model_fit, forecast, compare,
          test_b, model_fit_b, forecast_b

vars == <<pc, raw, freq, cadence, m_values, train, test,
          sfrequency, converged, model_fit, forecast, compare,
          test_b, model_fit_b, forecast_b>>

(* ------------------------------ bounds -------------------------------- *)
MaxTime == 8
MaxRaw == 3
MaxPipelineRaw == 2
MaxVal == 1
MaxPred == 1
MaxLen == 4
MaxY == 1
MaxRows == 6
MaxTwin == 1

(* ------------------------- exact arithmetic --------------------------- *)
NaN == [nan |-> TRUE, num |-> 0, den |-> 1]

Rat(n, d) == [nan |-> FALSE, num |-> n, den |-> d]

Abs(x) == IF x < 0 THEN -x ELSE x

\* x * |x|: strictly monotone in x, so reals compare as their signed squares
SignedSq(x) == x * Abs(x)

RECURSIVE SumSeq(_)
SumSeq(xs) == IF xs = << >> THEN 0 ELSE xs[1] + SumSeq(Tail(xs))

RECURSIVE SumSqSeq(_)
SumSqSeq(xs) == IF xs = << >> THEN 0 ELSE xs[1] * xs[1] + SumSqSeq(Tail(xs))

RatEq(a, b) == ~a.nan /\ ~b.nan /\ a.num * b.den = b.num * a.den

(* --------------------------- Data Sampling ---------------------------- *)
Freqs == {"1h", "30Min", "15Min", "1d", "2h"}

\* width of the pandas offset alias, in 15-minute units
BucketWidth(f) ==
    CASE f = "15Min" -> 1
      [] f = "30Min" -> 2
      [] f = "1h"    -> 4
      [] f = "2h"    -> 8
      [] f = "1d"    -> 96

\* left edge of the calendar-aligned bucket holding ts
Bucket(ts, w) == ts - (ts % w)

MinDs(rows) == CHOOSE t \in {rows[i].ds : i \in DOMAIN rows} :
                 \A i \in DOMAIN rows : t <= rows[i].ds

MaxDs(rows) == CHOOSE t \in {rows[i].ds : i \in DOMAIN rows} :
                 \A i \in DOMAIN rows : t >= rows[i].ds

RECURSIVE BucketSum(_, _, _)
BucketSum(rows, b, w) ==
    IF rows = << >> THEN 0
    ELSE (IF Bucket(rows[1].ds, w) = b THEN rows[1].y ELSE 0)
         + BucketSum(Tail(rows), b, w)

RECURSIVE BucketCount(_, _, _)
BucketCount(rows, b, w) ==
    IF rows = << >> THEN 0
    ELSE (IF Bucket(rows[1].ds, w) = b THEN 1 ELSE 0)
         + BucketCount(Tail(rows), b, w)

\* mutation: the bucket's total in place of its mean
BucketMean_sum(rows, b, w) ==
    IF BucketCount(rows, b, w) = 0 THEN NaN
    ELSE Rat(BucketSum(rows, b, w), 1)

\* .mean() of one bucket: NaN for a bucket without samples
BucketMean(rows, b, w) ==
    IF BucketCount(rows, b, w) = 0 THEN NaN
    ELSE Rat(BucketSum(rows, b, w), BucketCount(rows, b, w))

\* mutation: the samples passed on as they are, not grouped into buckets
resample_mean_raw(rows, f) ==
    [k \in 1..Len(rows) |-> [ds |-> rows[k].ds, y |-> Rat(rows[k].y, 1)]]

\* mutation: resample(freq, label='right'), a bucket named by its right edge
resample_mean_right_label(rows, f) ==
    IF rows = << >> THEN << >>
    ELSE LET w     == BucketWidth(f)
             first == Bucket(MinDs(rows), w)
             last  == Bucket(MaxDs(rows), w)
         IN [k \in 1..((last - first) \div w + 1) |->
                [ds |-> first + k * w,
                 y  |-> BucketMean(rows, first + (k - 1) * w, w)]]

\* m_values.resample(freq).mean(): one row per bucket from the first to the
\* last bucket that holds a sample, empty buckets included (as NaN)
resample_mean(rows, f) ==
    IF rows = << >> THEN << >>
    ELSE LET w     == BucketWidth(f)
             first == Bucket(MinDs(rows), w)
             last  == Bucket(MaxDs(rows), w)
         IN [k \in 1..((last - first) \div w + 1) |->
                [ds |-> first + (k - 1) * w,
                 y  |-> BucketMean(rows, first + (k - 1) * w, w)]]

\* m_values.dropna()
dropna(rows) == SelectSeq(rows, LAMBDA r : ~r.y.nan)

\* The same resample(freq).mean() on a frame that holds means already
RatAdd(a, b) == Rat(a.num * b.den + b.num * a.den, a.den * b.den)

RECURSIVE SeriesBucketSum(_, _, _)
SeriesBucketSum(rows, b, w) ==
    IF rows = << >> THEN Rat(0, 1)
    ELSE IF Bucket(rows[1].ds, w) = b
         THEN RatAdd(rows[1].y, SeriesBucketSum(Tail(rows), b, w))
         ELSE SeriesBucketSum(Tail(rows), b, w)

SeriesBucketMean(rows, b, w) ==
    IF BucketCount(rows, b, w) = 0 THEN NaN
    ELSE Rat(SeriesBucketSum(rows, b, w).num,
             SeriesBucketSum(rows, b, w).den * BucketCount(rows, b, w))

resample_series(rows, f) ==
    IF rows = << >> THEN << >>
    ELSE LET w     == BucketWidth(f)
             first == Bucket(MinDs(rows), w)
             last  == Bucket(MaxDs(rows), w)
         IN [k \in 1..((last - first) \div w + 1) |->
                [ds |-> first + (k - 1) * w,
                 y  |-> SeriesBucketMean(rows, first + (k - 1) * w, w)]]

(* ----------------------------- split_data ----------------------------- *)
RECURSIVE InsertByDs(_, _)
InsertByDs(r, sorted) ==
    IF sorted = << >> THEN <<r>>
    ELSE IF r.ds < sorted[1].ds THEN <<r>> \o sorted
    ELSE <<sorted[1]>> \o InsertByDs(r, Tail(sorted))

RECURSIVE sort_values(_)
sort_values(rows) ==
    IF rows = << >> THEN << >>
    ELSE InsertByDs(rows[Len(rows)], sort_values(SubSeq(rows, 1, Len(rows) - 1)))

\* mutation: the holdout ratio used as the training share
split_size_holdout(n) == (n * 2) \div 10

\* int(len(dataframe) * (1 - float(ratio))) with ratio = 0.2
split_size(n) == (n * 8) \div 10

split_train(dataframe) ==
    SubSeq(sort_values(dataframe), 1, split_size(Len(dataframe)))

split_test(dataframe) ==
    SubSeq(sort_values(dataframe), split_size(Len(dataframe)) + 1, Len(dataframe))

(* ------------------------------ _sarima ------------------------------- *)
\* the if/elif chain of _sarima; sfrequency stays 0 for any other string
seasonal_frequency(f) ==
    IF f = "1h" THEN 24
    ELSE IF f = "30Min" THEN 48
    ELSE IF f = "15Min" THEN 96
    ELSE IF f = "1d" THEN 1
    ELSE 0

\* no model fitted yet
NoModel == [input |-> << >>, values |-> << >>, converged |-> FALSE]

\* mutation: the model built on train followed by test
fit_input_with_holdout(trainRows, testRows, f) ==
    <<[j \in 1..(Len(trainRows) + Len(testRows)) |->
          IF j <= Len(trainRows) THEN trainRows[j].y
          ELSE testRows[j - Len(trainRows)].y],
      seasonal_frequency(f), Len(testRows)>>

\* what _sarima hands to the solver: SARIMAX(train, ..., sfrequency) and
\* forecast(K) with K = len(test)
fit_input(trainRows, testRows, f) ==
    <<[j \in 1..Len(trainRows) |-> trainRows[j].y],
      seasonal_frequency(f), Len(testRows)>>

\* model_fit.forecast(K): K out-of-sample steps after the end of train, one
\* per step of the series' cadence w; "target" records the time step j is for
forecast_targets(trainRows, K, w) ==
    [j \in 1..K |-> trainRows[Len(trainRows)].ds + j * w]

\* pd.DataFrame(forecast.values, columns=['predict'], index=test.index)
forecast_frame(values, targets, testRows) ==
    [j \in 1..Len(testRows) |->
        [ds |-> testRows[j].ds, predict |-> values[j], target |-> targets[j]]]

(* ----------------------------- evaluation ----------------------------- *)
Predicts(fc) == [j \in 1..Len(fc) |-> fc[j].predict]

\* np.std(frame): numpy hands ddof=0 to DataFrame.std, NaN for no rows.
\* The result is the square of the deviation, num/den.
np_std(xs) ==
    IF Len(xs) = 0 THEN NaN
    ELSE Rat(Len(xs) * SumSqSeq(xs) - SumSeq(xs) * SumSeq(xs), Len(xs) * Len(xs))

\* mutation: the slice forecast[:i+1], the point at i taken into its window
std_window_inclusive(fc, j) == SubSeq(Predicts(fc), 1, j)

\* forecast[:i] for the 0-based i of the comprehension; j = i + 1
std_window(fc, j) == SubSeq(Predicts(fc), 1, j - 1)

\* the real  base + coef * sqrt(num/den)
Bound(base, coef, sd) ==
    [nan |-> sd.nan, base |-> base, coef |-> coef, num |-> sd.num, den |-> sd.den]

upper_bound(fc) ==
    [j \in 1..Len(fc) |-> Bound(fc[j].predict, 2, np_std(std_window(fc, j)))]

lower_bound(fc) ==
    [j \in 1..Len(fc) |-> Bound(fc[j].predict, -2, np_std(std_window(fc, j)))]

\* v < b and v > b for a rational v and a bound b, compared exactly
LessThanBound(v, b) ==
    /\ ~v.nan /\ ~b.nan
    /\ SignedSq(v.num - b.base * v.den) * b.den
         < SignedSq(b.coef) * b.num * v.den * v.den

GreaterThanBound(v, b) ==
    /\ ~v.nan /\ ~b.nan
    /\ SignedSq(v.num - b.base * v.den) * b.den
         > SignedSq(b.coef) * b.num * v.den * v.den

HasDs(rows, t) == \E i \in DOMAIN rows : rows[i].ds = t

RowAt(rows, t) == rows[CHOOSE i \in DOMAIN rows : rows[i].ds = t]

\* test.join(forecast, how='outer').dropna(): rows of both frames by
\* timestamp; a timestamp missing from either side has a NaN and is dropped
join_dropna(testRows, fc) ==
    LET kept == SelectSeq(testRows, LAMBDA r : ~r.y.nan /\ HasDs(fc, r.ds))
    IN [i \in 1..Len(kept) |->
          [ds |-> kept[i].ds, y |-> kept[i].y,
           predict |-> RowAt(fc, kept[i].ds).predict]]

\* mutation: the bounds put in by position counted from the end
AlignedAt_reversed(bounds, testRows, t) ==
    bounds[Len(testRows) + 1 - (CHOOSE i \in DOMAIN testRows : testRows[i].ds = t)]

\* DataFrame(bounds, index=test.index) inserted into compare: aligned on ds
AlignedAt(bounds, testRows, t) ==
    bounds[CHOOSE i \in DOMAIN testRows : testRows[i].ds = t]

\* v = b, compared exactly
EqualsBound(v, b) ==
    /\ ~v.nan /\ ~b.nan
    /\ SignedSq(v.num - b.base * v.den) * b.den
         = SignedSq(b.coef) * b.num * v.den * v.den

\* mutation: the band taken as closed, a value on a bound counted as inside
anomaly_flag_inclusive(y, lower, upper) ==
    IF /\ (LessThanBound(y, upper) \/ EqualsBound(y, upper))
       /\ (GreaterThanBound(y, lower) \/ EqualsBound(y, lower))
    THEN 0 ELSE 1

\* the if of the anomaly loop
anomaly_flag(y, lower, upper) ==
    IF LessThanBound(y, upper) /\ GreaterThanBound(y, lower) THEN 0 ELSE 1

evaluation(fc, testRows) ==
    LET joined == join_dropna(testRows, fc)
        lower  == lower_bound(fc)
        upper  == upper_bound(fc)
    IN [i \in 1..Len(joined) |->
          LET lo == AlignedAt(lower, testRows, joined[i].ds)
              up == AlignedAt(upper, testRows, joined[i].ds)
              p  == Rat(joined[i].predict, 1)
          IN [ds |-> joined[i].ds,
              y |-> joined[i].y,
              predict |-> joined[i].predict,
              LowerBound |-> lo,
              UpperBound |-> up,
              WithinUpperBounds |-> LessThanBound(p, up),
              WithinLowerBounds |-> GreaterThanBound(p, lo),
              Anomaly |-> anomaly_flag(joined[i].y, lo, up)]]

(* ------------------------------ inputs -------------------------------- *)
StrictlyIncreasing(rows) ==
    \A i \in DOMAIN rows : i > 1 => rows[i - 1].ds < rows[i].ds

\* m.metric_values: up to k samples in time order, one per timestamp
RawInputs(k) ==
    UNION {{s \in [1..n -> [ds : 0..MaxTime, y : 0..MaxVal]] : StrictlyIncreasing(s)}
           : n \in 1..k}

(* ------------------------------ pipeline ------------------------------ *)
Init ==
    /\ pc = "loaded"
    /\ raw \in RawInputs(MaxPipelineRaw)
    /\ freq = "none"
    /\ cadence = "none"
    /\ m_values = << >>
    /\ train = << >>
    /\ test = << >>
    /\ sfrequency = 0
    /\ converged = FALSE
    /\ forecast = << >>
    /\ compare = << >>
    /\ model_fit = NoModel
    /\ test_b = << >>
    /\ model_fit_b = NoModel
    /\ forecast_b = << >>

\* the Data Sampling cell, run with the frequency f
Resample(f) ==
    /\ pc = "loaded"
    /\ freq' = f
    /\ cadence' = f
    /\ m_values' = dropna(resample_mean(raw, f))
    /\ pc' = "resampled"
    /\ UNCHANGED <<raw, train, test, sfrequency, converged, forecast, compare>>
    /\ UNCHANGED <<model_fit, test_b, model_fit_b, forecast_b>>

\* train, test = split_data(m_values)
Split ==
    /\ pc = "resampled"
    /\ train' = split_train(m_values)
    /\ test' = split_test(m_values)
    /\ pc' = "split"
    /\ UNCHANGED <<raw, freq, cadence, m_values, sfrequency, converged, forecast, compare>>
    /\ UNCHANGED <<model_fit, test_b, model_fit_b, forecast_b>>

\* the call cell: freq = ...; model, model_fit, forecast = _sarima(train, test, freq)
\* The fit is the external solver: it returns K values and whether it converged.
Sarima(f, values, conv) ==
    /\ pc = "split"
    /\ Len(train) > 0
    /\ freq' = f
    /\ sfrequency' = seasonal_frequency(f)
    /\ converged' = conv
    /\ forecast' = forecast_frame(values,
                      forecast_targets(train, Len(test), BucketWidth(cadence)), test)
    /\ model_fit' = [input |-> fit_input(train, test, f),
                     values |-> values, converged |-> conv]
    /\ pc' = "forecast"
    /\ UNCHANGED <<raw, cadence, m_values, train, test, compare>>
    /\ UNCHANGED <<test_b, model_fit_b, forecast_b>>

\* evaluation(forecast, test)
Evaluation ==
    /\ pc = "forecast"
    /\ compare' = evaluation(forecast, test)
    /\ pc' = "evaluated"
    /\ UNCHANGED <<raw, freq, cadence, m_values, train, test, sfrequency, converged, forecast>>
    /\ UNCHANGED <<model_fit, test_b, model_fit_b, forecast_b>>

\* freq = '1h' in the cell, or whatever the reader sets it to
DataSampling == \E f \in Freqs : Resample(f)

SarimaCall ==
    \E f \in Freqs, conv \in BOOLEAN :
      \E values \in [1..Len(test) -> 0..MaxPred] : Sarima(f, values, conv)

Next ==
    \/ DataSampling
    \/ Split
    \/ SarimaCall
    \/ Evaluation

Spec == Init /\ [][Next]_vars

(* ------------------- the Data Sampling cell on its own ------------------ *)
InitResample ==
    /\ pc = "loaded"
    /\ raw \in RawInputs(MaxRaw)
    /\ freq = "none"
    /\ cadence = "none"
    /\ m_values = << >>
    /\ train = << >>
    /\ test = << >>
    /\ sfrequency = 0
    /\ converged = FALSE
    /\ forecast = << >>
    /\ compare = << >>
    /\ model_fit = NoModel
    /\ test_b = << >>
    /\ model_fit_b = NoModel
    /\ forecast_b = << >>

NextResample == DataSampling

SpecResample == InitResample /\ [][NextResample]_vars

(* ------------------ resampling the resampled series -------------------- *)
\* resample(freq).mean() and dropna() applied to the series they produced
ResampleAgain ==
    /\ pc = "resampled"
    /\ m_values' = dropna(resample_series(m_values, cadence))
    /\ pc' = "resampled_again"
    /\ UNCHANGED <<raw, freq, cadence, train, test, sfrequency, converged, forecast, compare>>
    /\ UNCHANGED <<model_fit, test_b, model_fit_b, forecast_b>>

NextResampleTwice ==
    \/ DataSampling
    \/ ResampleAgain

SpecResampleTwice == InitResample /\ [][NextResampleTwice]_vars

(* --------------- _sarima run twice on the same train ------------------- *)
\* _sarima(train, test_b, freq) after _sarima(train, test, freq).  The solver
\* is deterministic: given the input of the first run again it returns the
\* same fit and the same values; on any other input its result is open.
SarimaTwin(values, conv) ==
    /\ pc = "forecast"
    /\ Len(test_b) > 0
    /\ (fit_input(train, test_b, freq) = model_fit.input)
         => (values = model_fit.values /\ conv = model_fit.converged)
    /\ model_fit_b' = [input |-> fit_input(train, test_b, freq),
                       values |-> values, converged |-> conv]
    /\ forecast_b' = forecast_frame(values,
                        forecast_targets(train, Len(test_b), BucketWidth(cadence)), test_b)
    /\ pc' = "forecast_b"
    /\ UNCHANGED <<raw, freq, cadence, m_values, train, test, sfrequency, converged,
                   model_fit, forecast, compare, test_b>>

SarimaTwinCall ==
    \E conv \in BOOLEAN :
      \E values \in [1..Len(test_b) -> 0..MaxPred] : SarimaTwin(values, conv)

\* an hourly window of the values ys whose first row is row number k
HourlyRows(ys, k) ==
    [j \in 1..Len(ys) |-> [ds |-> (k + j - 2) * 4, y |-> Rat(ys[j], 1)]]

\* one train and two holdout windows of equal length and equal timestamps
InitHoldout ==
    /\ pc = "split"
    /\ raw = << >>
    /\ freq = "1h"
    /\ cadence = "1h"
    /\ m_values = << >>
    /\ \E n \in 1..MaxTwin, k \in 1..MaxTwin :
         \E ts \in [1..n -> 0..MaxVal], ys \in [1..k -> 0..MaxVal], zs \in [1..k -> 0..MaxVal] :
            /\ train = HourlyRows(ts, 1)
            /\ test = HourlyRows(ys, n + 1)
            /\ test_b = HourlyRows(zs, n + 1)
    /\ sfrequency = 0
    /\ converged = FALSE
    /\ model_fit = NoModel
    /\ forecast = << >>
    /\ compare = << >>
    /\ model_fit_b = NoModel
    /\ forecast_b = << >>

NextHoldout ==
    \/ SarimaCall
    \/ SarimaTwinCall

SpecHoldout == InitHoldout /\ [][NextHoldout]_vars

(* ------------------- evaluation() on its own inputs -------------------- *)
\* forecast and test as _sarima leaves them: the same hourly index, one
\* prediction per test row
EvalTest(ys) == [j \in 1..Len(ys) |-> [ds |-> (j - 1) * 4, y |-> Rat(ys[j], 1)]]

EvalForecast(ps) ==
    [j \in 1..Len(ps) |-> [ds |-> (j - 1) * 4, predict |-> ps[j], target |-> (j - 1) * 4]]

InitEval ==
    /\ pc = "forecast"
    /\ raw = << >>
    /\ freq = "1h"
    /\ cadence = "1h"
    /\ m_values = << >>
    /\ train = << >>
    /\ \E n \in 1..MaxLen :
         \E ys \in [1..n -> 0..MaxY], ps \in [1..n -> 0..MaxPred] :
            /\ test = EvalTest(ys)
            /\ forecast = EvalForecast(ps)
    /\ sfrequency = 24
    /\ converged = TRUE
    /\ compare = << >>
    /\ model_fit = NoModel
    /\ test_b = << >>
    /\ model_fit_b = NoModel
    /\ forecast_b = << >>

NextEval == Evaluation

SpecEval == InitEval /\ [][NextEval]_vars

(* ------------------- split_data() on its own inputs -------------------- *)
Injective(s) == \A i, j \in DOMAIN s : i # j => s[i] # s[j]

\* a frame with one row per timestamp, rows in any order
SplitFrame(ts) == [i \in 1..Len(ts) |-> [ds |-> ts[i], y |-> Rat(ts[i], 1)]]

InitSplit ==
    /\ pc = "resampled"
    /\ raw = << >>
    /\ freq = "1h"
    /\ cadence = "1h"
    /\ \E n \in 0..MaxRows :
         \E ts \in [1..n -> 0..MaxRows] :
            /\ Injective(ts)
            /\ m_values = SplitFrame(ts)
    /\ train = << >>
    /\ test = << >>
    /\ sfrequency = 0
    /\ converged = FALSE
    /\ forecast = << >>
    /\ compare = << >>
    /\ model_fit = NoModel
    /\ test_b = << >>
    /\ model_fit_b = NoModel
    /\ forecast_b = << >>

NextSplit == Split

SpecSplit == InitSplit /\ [][NextSplit]_vars

(* =============================== claims =============================== *)
Evaluated == pc = "evaluated"

Fitted == pc \in {"forecast", "evaluated"}

ClaimedSampleStd(xs) ==
    IF Len(xs) <= 1 THEN Rat(0, 1)
    ELSE Rat(Len(xs) * SumSqSeq(xs) - SumSeq(xs) * SumSeq(xs), Len(xs) * (Len(xs) - 1))

\* the bound b is the real  p + k * sqrt(sd)
BoundIs(b, p, k, sd) ==
    /\ ~b.nan /\ ~sd.nan
    /\ b.base = p
    /\ SignedSq(b.coef) * b.num * sd.den = SignedSq(k) * sd.num * b.den

\* C2: for every forecast index i, UpperBound[i] = predict[i] + 2*s_i and
\* LowerBound[i] = predict[i] - 2*s_i, s_i being the sample standard
\* deviation of the predictions at indices 0..i, index i included.
C2_InclusiveSampleWindow ==
    Evaluated =>
      \A j \in DOMAIN compare :
        LET s == ClaimedSampleStd(SubSeq(Predicts(forecast), 1, j)) IN
          /\ BoundIs(compare[j].UpperBound, compare[j].predict, 2, s)
          /\ BoundIs(compare[j].LowerBound, compare[j].predict, -2, s)

\* C3: at index 0 the deviation is 0, never NaN, so
\* LowerBound[0] = UpperBound[0] = predict[0].
C3_FirstBandIsPrediction ==
    (Evaluated /\ Len(compare) > 0) =>
      /\ EqualsBound(Rat(compare[1].predict, 1), compare[1].LowerBound)
      /\ EqualsBound(Rat(compare[1].predict, 1), compare[1].UpperBound)

\* C4: at every index, i = 0 included, both bounds are numbers and
\* UpperBound[i] >= predict[i] >= LowerBound[i].
C4_BandContainsPrediction ==
    Evaluated =>
      \A i \in DOMAIN compare :
        LET p == Rat(compare[i].predict, 1) IN
          /\ ~compare[i].UpperBound.nan
          /\ ~compare[i].LowerBound.nan
          /\ ~GreaterThanBound(p, compare[i].UpperBound)
          /\ ~LessThanBound(p, compare[i].LowerBound)

\* C5: split_data on n rows in any order: train is the first floor(0.8 n)
\* rows in timestamp order and test the rest; the lengths add up to n, every
\* row is in exactly one place, and train lies strictly before test.
C5_SplitPartition ==
    pc = "split" =>
      LET n   == Len(m_values)
          all == train \o test
      IN /\ 5 * Len(train) <= 4 * n
         /\ 4 * n < 5 * (Len(train) + 1)
         /\ Len(train) + Len(test) = n
         /\ \A i \in DOMAIN m_values :
              Cardinality({k \in DOMAIN all : all[k] = m_values[i]}) = 1
         /\ StrictlyIncreasing(all)
         /\ \A i \in DOMAIN train, j \in DOMAIN test : train[i].ds < test[j].ds

\* C5 witness: an unsorted frame split into a train and a test of two or
\* more rows each
C5_Witness ==
    /\ pc = "split"
    /\ ~StrictlyIncreasing(m_values)
    /\ Len(train) >= 2
    /\ Len(test) >= 2

\* raw samples whose timestamp lies in the bucket [b, b + w)
InBucket(b, w) == {i \in DOMAIN raw : b <= raw[i].ds /\ raw[i].ds < b + w}

RECURSIVE RawTotal(_)
RawTotal(I) ==
    IF I = {} THEN 0
    ELSE LET i == CHOOSE x \in I : TRUE IN raw[i].y + RawTotal(I \ {i})

Resampled == pc # "loaded"

\* C6: the resampled series has, in time order, exactly one row per
\* calendar-aligned bucket holding at least one raw sample; its value is the
\* arithmetic mean of the raw values of the bucket; an empty bucket has no row.
C6_BucketMeans ==
    Resampled =>
      LET w == BucketWidth(cadence) IN
        /\ \A k \in DOMAIN m_values :
             LET r == m_values[k] IN
               /\ r.ds % w = 0
               /\ InBucket(r.ds, w) # {}
               /\ ~r.y.nan
               /\ r.y.num * Cardinality(InBucket(r.ds, w)) = RawTotal(InBucket(r.ds, w)) * r.y.den
        /\ StrictlyIncreasing(m_values)
        /\ \A b \in 0..MaxTime :
             (b % w = 0 /\ InBucket(b, w) # {}) => HasDs(m_values, b)

\* C6 witness: a bucket whose mean is not any of its samples, and an empty
\* bucket left out between two rows
C6_Witness ==
    /\ pc = "resampled"
    /\ \E k \in DOMAIN m_values : m_values[k].y.num % m_values[k].y.den # 0
    /\ \E k \in DOMAIN m_values :
         k > 1 /\ m_values[k].ds - m_values[k - 1].ds > BucketWidth(cadence)

\* C7 as stated: timestamps strictly increase and every two consecutive
\* output timestamps are exactly one cadence apart, empty buckets or not.
C7_GapIsOneCadence ==
    Resampled =>
      /\ StrictlyIncreasing(m_values)
      /\ \A k \in DOMAIN m_values :
           k > 1 => m_values[k].ds - m_values[k - 1].ds = BucketWidth(cadence)

\* C7 amended: timestamps strictly increase, and the gap between consecutive
\* output timestamps is a positive whole multiple of the cadence, the buckets
\* strictly between the two being exactly the empty ones that were dropped.
C7_GapIsCadenceMultiple ==
    Resampled =>
      LET w == BucketWidth(cadence) IN
        /\ StrictlyIncreasing(m_values)
        /\ \A k \in DOMAIN m_values :
             k > 1 =>
               LET gap == m_values[k].ds - m_values[k - 1].ds IN
                 /\ gap >= w
                 /\ gap % w = 0
                 /\ \A t \in (m_values[k - 1].ds + 1)..(m_values[k].ds - 1) :
                      t % w = 0 => InBucket(t, w) = {}

\* C7 witness: a series with one gap of a single cadence and one gap of two
C7_Witness ==
    /\ pc = "resampled"
    /\ \E k \in DOMAIN m_values :
         k > 1 /\ m_values[k].ds - m_values[k - 1].ds = BucketWidth(cadence)
    /\ \E k \in DOMAIN m_values :
         k > 1 /\ m_values[k].ds - m_values[k - 1].ds = 2 * BucketWidth(cadence)

\* the cadence-to-seasonal-period table of the claim
KnownCadences == {"1h", "30Min", "15Min", "1d"}

\* C8: a cadence without an entry in the table ends the run with
\* InvalidCadence; no model is ever fit with the fallback period 0.
C8_NoFitOnUnknownCadence ==
    Fitted => (freq \in KnownCadences /\ sfrequency # 0)

\* C9: no (train, test) pair with a partition shorter than the seasonal
\* period + 1 is ever fit; such a split fails with InsufficientData.
C9_NoFitOnShortPartition ==
    Fitted => (Len(train) >= sfrequency + 1 /\ Len(test) >= sfrequency + 1)

\* C10: the forecast has len(test) rows and row j, labelled with the j-th
\* test timestamp, is the prediction made for that very time, which is
\* trainLast + (j+1) * cadence; also when dropped buckets left gaps.
C10_ForecastLabelIsTarget ==
    Fitted =>
      /\ Len(forecast) = Len(test)
      /\ \A j \in DOMAIN forecast :
           /\ forecast[j].ds = test[j].ds
           /\ forecast[j].target = train[Len(train)].ds + j * BucketWidth(cadence)
           /\ forecast[j].ds = forecast[j].target

\* C11: evaluation() yields one record per test timestamp in time order:
\* len(test) rows, row i carrying the i-th test timestamp and value, the
\* i-th prediction, and the bounds and flag computed for forecast index i.
C11_OneRecordPerTestRow ==
    Evaluated =>
      /\ Len(compare) = Len(test)
      /\ \A i \in DOMAIN compare :
           LET sd == np_std(SubSeq(Predicts(forecast), 1, i - 1))
               lo == Bound(forecast[i].predict, -2, sd)
               up == Bound(forecast[i].predict, 2, sd)
           IN /\ compare[i].ds = test[i].ds
              /\ compare[i].y = test[i].y
              /\ compare[i].predict = forecast[i].predict
              /\ compare[i].LowerBound = lo
              /\ compare[i].UpperBound = up
              /\ compare[i].Anomaly =
                   (IF GreaterThanBound(test[i].y, lo) /\ LessThanBound(test[i].y, up)
                    THEN 0 ELSE 1)

\* C11 witness: a table of three or more rows whose bands differ from row
\* to row
C11_Witness ==
    /\ Evaluated
    /\ Len(compare) >= 3
    /\ compare[2].UpperBound.num = 0
    /\ compare[3].UpperBound.num > 0
    /\ compare[1].predict # compare[3].predict

\* C13: as the notebook's text has the rule: Anomaly = 1 if the actual value
\* is below the lower bound or above the upper bound, and 0 in every other
\* case, a value exactly on a bound included.
C13_DocumentedRule ==
    Evaluated =>
      \A i \in DOMAIN compare :
        (compare[i].Anomaly = 1) <=>
          (\/ LessThanBound(compare[i].y, compare[i].LowerBound)
           \/ GreaterThanBound(compare[i].y, compare[i].UpperBound))

\* C14: a fit that did not converge ends in ModelFitFailure; no forecast,
\* band or anomaly record is ever made from it.
C14_NoForecastFromFailedFit ==
    Fitted => converged

\* C15: the seasonal period the model is fit with is the one mapped from the
\* cadence the series was resampled at, whatever cadence was chosen.
C15_PeriodFollowsResampling ==
    Fitted => sfrequency = seasonal_frequency(cadence)

OneCadenceApart(w) ==
    \A i \in DOMAIN raw : i > 1 => raw[i].ds - raw[i - 1].ds = w

\* every raw timestamp is a calendar boundary of the cadence w
OnBoundaries(w) == \A i \in DOMAIN raw : raw[i].ds % w = 0

\* the series has the timestamps and the values of the raw samples
SameAsRaw ==
    /\ Len(m_values) = Len(raw)
    /\ \A k \in DOMAIN m_values :
         /\ k \in DOMAIN raw
         /\ m_values[k].ds = raw[k].ds
         /\ RatEq(m_values[k].y, Rat(raw[k].y, 1))

ResampledOnceOrTwice == pc \in {"resampled", "resampled_again"}

\* C12 as stated: for every input with one sample per bucket and consecutive
\* timestamps one cadence apart, the output has the timestamps and values of
\* the input, and resampling the output again changes nothing.
C12_NoOpAtCadence ==
    (ResampledOnceOrTwice /\ OneCadenceApart(BucketWidth(cadence))) => SameAsRaw

\* C12 amended: the same, for inputs whose timestamps also lie on the
\* calendar boundaries of the cadence.
C12_NoOpOnBoundaries ==
    (/\ ResampledOnceOrTwice
     /\ OneCadenceApart(BucketWidth(cadence))
     /\ OnBoundaries(BucketWidth(cadence))) => SameAsRaw

\* C12 witness: three samples on consecutive boundaries, with different
\* values, resampled twice
C12_Witness ==
    /\ pc = "resampled_again"
    /\ Len(raw) >= 3
    /\ OneCadenceApart(BucketWidth(cadence))
    /\ OnBoundaries(BucketWidth(cadence))
    /\ raw[1].y # raw[2].y
    /\ SameAsRaw

\* C16: two runs of _sarima on the same train and cadence, with holdout
\* windows of equal length and timestamps but any observed values, end with
\* the same fitted model and the same forecast, row for row.
C16_HoldoutUnseen ==
    pc = "forecast_b" =>
      /\ model_fit_b = model_fit
      /\ forecast_b = forecast

\* C16 witness: the two holdout windows differ in their values and the two
\* runs have both forecast
C16_Witness ==
    /\ pc = "forecast_b"
    /\ test_b # test
    /\ Len(forecast_b) = Len(test_b)
    /\ forecast_b = forecast

====
